---- MODULE Spec2Model ----
(***************************************************************************)
(* Model of phase_poly_benchmarks: the random Pauli-exponential generator, *)
(* the topology builders, run_trafos, the command surface (cli.py) and the *)
(* per-file worker processes of full_qasm_bench.                           *)
(*                                                                         *)
(* SpecGen  : add_random_poly_exp_box on bounded circuits, with the full   *)
(*            content of the box it appends.                               *)
(* Spec     : one invocation of the command line (grid, line, qasm,        *)
(*            qasm-full) followed to its return or to an uncaught error.   *)
(* FairSpec : the qasm-full command, with the parent process of           *)
(*            full_qasm_bench scheduled.                                   *)
(***************************************************************************)
EXTENDS Integers, Sequences, FiniteSets, TLC

VARIABLES
    gpc, gargs, gcirc, gret,
    pc, args, arch, heap, circ, circ2, circ3, input0, start_time, cpu, results,
    out, loaded,
    listing, idx, p1, returncode, elapsed, wstate, wcode, sigterm, started, expired

genVars   == <<gpc, gargs, gcirc, gret>>
trafoVars == <<arch, heap, circ, circ2, circ3, input0, start_time, cpu, results, loaded>>
batchVars == <<listing, idx, p1, returncode, elapsed, wstate, wcode, sigterm, started, expired>>
progVars  == <<pc, args, out, trafoVars, batchVars>>
vars      == <<genVars, progVars>>

\* ------------------------------------------------------------------ bounds
MaxGenQubits == 3
MaxGenSize   == 3
MaxInitOps   == 1
PhaseSteps   == 2
MaxSide      == 1
MaxQubits    == 3
MaxStrings   == 1
MaxCx        == 1
MaxTick      == 1
MaxFiles     == 2

\* ------------------------------------------------------- program constants
Timeout == 60
SIGTERM == 15
NPauli  == 3

None == <<>>
Some(v) == <<v>>

Min(a, b) == IF a <= b THEN a ELSE b

\* All sequences of length k over S.
RECURSIVE SeqsOfLen(_, _)
SeqsOfLen(S, k) ==
    IF k = 0 THEN {<<>>}
    ELSE {Append(s, x) : s \in SeqsOfLen(S, k - 1), x \in S}

IsInjective(s) == \A i, j \in 1..Len(s) : i # j => s[i] # s[j]

\* ======================================================================
\* Random circuit generator (benchmarks.py, add_random_poly_exp_box)
\* ======================================================================

\* Circuit(n): n qubits q[0..n-1], no operation.
Qubit(i) == [reg |-> "q", idx |-> <<i>>]
Circuit(n) ==
    [units |-> [i \in 1..n |-> Qubit(i - 1)], ops |-> <<>>, log |-> <<>>,
     cx_depth |-> 0]
n_qubits(c) == Len(c.units)

\* used_min_size / used_max_size: the requested size, clamped to circ_size.
UsedSize(size, circ_size) == IF size <= circ_size THEN size ELSE circ_size

\* random.randint(a, b): an integer N with a <= N <= b.
randint_open(a, b) == a..(b + 1)
randint(a, b) == a..b

\* random.sample(range(n), k): k indices drawn without replacement, in the
\* order drawn.
sample_repl(n, k) == SeqsOfLen(0..(n - 1), k)
sample(n, k) == {s \in SeqsOfLen(0..(n - 1), k) : IsInjective(s)}

\* [Pauli(randint(0, 3)) for _ in range(box_size)]
PauliLists(box_size) == SeqsOfLen(randint(0, NPauli), box_size)

\* random(): a float in [0, 1), kept as the numerator of a fraction of
\* PhaseSteps.
Phases == 0..(PhaseSteps - 1)

PauliExpBox(paulis, phase, qubits) ==
    [paulis |-> paulis, phase |-> phase, qubits |-> qubits]

add_pauliexpbox(c, box) == [c EXCEPT !.ops = Append(@, box)]

GenInputs ==
    [min_size : 0..MaxGenSize, max_size : 0..MaxGenSize, n0 : 0..MaxInitOps]

GenCircuits(n0) ==
    {[Circuit(u) EXCEPT !.ops = [i \in 1..n0 |-> PauliExpBox(<<>>, 0, <<>>)]] :
        u \in 0..MaxGenQubits}

AssertSizes(min_size, max_size) == min_size > 0 /\ min_size <= max_size

\* lines 50-51: a failing assert raises AssertionError.
gen_assert_fail ==
    /\ gpc = "call"
    /\ ~AssertSizes(gargs.min_size, gargs.max_size)
    /\ gpc' = "raised"
    /\ UNCHANGED <<gargs, gcirc, gret>>

\* lines 52-61: the body after the asserts.  sample raises ValueError when
\* asked for more indices than there are qubits.
add_random_poly_exp_box ==
    /\ gpc = "call"
    /\ AssertSizes(gargs.min_size, gargs.max_size)
    /\ LET circ_size     == n_qubits(gcirc)
           used_min_size == UsedSize(gargs.min_size, circ_size)
           used_max_size == UsedSize(gargs.max_size, circ_size)
       IN \E box_size \in randint(used_min_size, used_max_size) :
            IF box_size > circ_size
            THEN /\ gpc' = "raised"
                 /\ UNCHANGED <<gcirc, gret>>
            ELSE \E paulis \in PauliLists(box_size), phase \in Phases,
                    target_qubits \in sample(circ_size, box_size) :
                    /\ gcirc' = add_pauliexpbox(gcirc,
                                    PauliExpBox(paulis, phase, target_qubits))
                    /\ gret' = Some(box_size)
                    /\ gpc' = "returned"
    /\ UNCHANGED gargs

\* The command line is not running in SpecGen.
ProgIdle ==
    /\ pc = "idle" /\ args = None /\ out = <<>>
    /\ arch = None /\ heap = <<>> /\ circ = 0 /\ circ2 = 0 /\ circ3 = 0
    /\ input0 = None /\ start_time = 0 /\ cpu = 0 /\ results = <<>>
    /\ loaded = FALSE
    /\ listing = <<>> /\ idx = 0 /\ p1 = 0 /\ returncode = None /\ elapsed = 0
    /\ wstate = <<>> /\ wcode = <<>> /\ sigterm = <<>> /\ started = <<>>
    /\ expired = {}

GenInit ==
    /\ gpc = "call"
    /\ gargs \in GenInputs
    /\ gcirc \in GenCircuits(gargs.n0)
    /\ gret = None
    /\ ProgIdle

GenNext ==
    \/ gen_assert_fail /\ UNCHANGED progVars
    \/ add_random_poly_exp_box /\ UNCHANGED progVars

SpecGen == GenInit /\ [][GenNext]_vars

\* ------------------------------------------------------------- claims: gen

\* C4: for 0 < min_size <= max_size and a circuit of U qubits, every return
\* of add_random_poly_exp_box gives a size in [min(min_size,U), min(max_size,U)]
\* and the circuit has exactly one operation more than before the call.
C4_SizeInRangeOneOp ==
    gpc = "returned" =>
        /\ gret # None
        /\ gret[1] >= Min(gargs.min_size, n_qubits(gcirc))
        /\ gret[1] <= Min(gargs.max_size, n_qubits(gcirc))
        /\ Len(gcirc.ops) = gargs.n0 + 1

C4_Witness ==
    /\ gpc = "returned"
    /\ gargs.n0 = 1
    /\ gargs.min_size < n_qubits(gcirc)
    /\ gargs.max_size > n_qubits(gcirc)
    /\ gret = Some(n_qubits(gcirc))
    /\ n_qubits(gcirc) >= 2

\* C5: the box appended has as many axis labels as the returned size, and
\* is bound to that many pairwise distinct qubit indices, each in 0..U-1.
C5_BoxShape ==
    gpc = "returned" =>
        LET box == gcirc.ops[Len(gcirc.ops)]
        IN /\ Len(box.paulis) = gret[1]
           /\ Len(box.qubits) = gret[1]
           /\ Cardinality({box.qubits[i] : i \in 1..Len(box.qubits)}) = gret[1]
           /\ \A i \in 1..Len(box.qubits) :
                box.qubits[i] \in 0..(n_qubits(gcirc) - 1)

C5_Witness ==
    /\ gpc = "returned"
    /\ gret = Some(3)
    /\ LET box == gcirc.ops[Len(gcirc.ops)]
       IN box.qubits = <<2, 0, 1>> /\ box.paulis = <<3, 0, 1>>

\* ======================================================================
\* Topology builders (benchmarks.py, get_line_arch / get_square_grid)
\* ======================================================================
Node(i) == [reg |-> "node", idx |-> <<i>>]
GridNode(r, c) == [reg |-> "gridNode", idx |-> <<r, c, 0>>]

AddNew(s, x) == IF \E i \in 1..Len(s) : s[i] = x THEN s ELSE Append(s, x)

\* The nodes that occur in a connection list, each once, in order of first
\* occurrence.
RECURSIVE NodesOf(_)
NodesOf(connections) ==
    IF connections = <<>> THEN <<>>
    ELSE LET n    == Len(connections)
             rest == NodesOf(SubSeq(connections, 1, n - 1))
         IN AddNew(AddNew(rest, connections[n][1]), connections[n][2])

\* Architecture(connections): the graph of the given edges; its nodes are
\* the end points of the edges.
Architecture(connections) ==
    [nodes |-> [i \in 1..Len(NodesOf(connections)) |-> Node(NodesOf(connections)[i])],
     edges |-> {{Node(connections[i][1]), Node(connections[i][2])} :
                    i \in 1..Len(connections)}]

\* pairwise(range(n)): (0,1), (1,2), ..., (n-2,n-1); empty for n < 2.
pairwise_range(n) == [i \in 1..(IF n >= 2 THEN n - 1 ELSE 0) |-> <<i - 1, i>>]

line_connections(n_qbits) == pairwise_range(n_qbits)

get_line_arch(n_qbits) == Architecture(line_connections(n_qbits))

\* SquareGrid(n_row, n_column): nodes gridNode[r, c, 0] in row-major order,
\* nearest neighbours adjacent.
SquareGrid(n_row, n_column) ==
    [nodes |-> [k \in 1..(n_row * n_column) |->
                    GridNode((k - 1) \div n_column, (k - 1) % n_column)],
     edges |-> {{GridNode(r, c), GridNode(r, c + 1)} :
                    r \in 0..(n_row - 1), c \in 0..(n_column - 2)}
               \cup {{GridNode(r, c), GridNode(r + 1, c)} :
                    r \in 0..(n_row - 2), c \in 0..(n_column - 1)}]

\* ceil(sqrt(n)) for an integer n >= 0.
CeilSqrt(n) == CHOOSE s \in 0..n : s * s >= n /\ (s = 0 \/ (s - 1) * (s - 1) < n)

get_square_grid(n) == SquareGrid(CeilSqrt(n), CeilSqrt(n))

Degree(a, node) == Cardinality({e \in a.edges : node \in e})

\* ======================================================================
\* Circuits as objects, place_manually, get_counts
\* ======================================================================

\* circ.copy(): a new object holding the same circuit.
circ_copy_alias(h, ref) == [heap |-> h, ref |-> ref]
circ_copy(h, ref) == [heap |-> Append(h, h[ref]), ref |-> Len(h) + 1]

\* rename_map = {Qubit(i): node for i, node in enumerate(arch.nodes)};
\* rename_units renames the units of the circuit that the map names.
rename_units(c, a) ==
    [c EXCEPT !.units = [i \in 1..Len(c.units) |->
                            IF \E k \in 1..Len(a.nodes) : c.units[i] = Qubit(k - 1)
                            THEN a.nodes[CHOOSE k \in 1..Len(a.nodes) :
                                            c.units[i] = Qubit(k - 1)]
                            ELSE c.units[i]],
              !.log = Append(@, "rename_units")]

place_manually(a, c) == rename_units(c, a)

\* What a synthesis or mapping pass leaves: ncx CX gates of depth depth.
\* The pass itself is the library's; only its frame is modelled.
Applied(c, name, ncx, depth) ==
    [c EXCEPT !.ops = [i \in 1..ncx |-> "CX"], !.cx_depth = depth,
              !.log = Append(@, name)]

\* The (count, depth) pairs a circuit of CX gates can have.
CxOutcomes ==
    {<<n, d>> \in (0..MaxCx) \X (0..MaxCx) : IF n = 0 THEN d = 0 ELSE d \in 1..n}

n_gates_of_type(c, t) == Cardinality({i \in 1..Len(c.ops) : c.ops[i] = t})
get_counts(c) == <<n_gates_of_type(c, "CX"), c.cx_depth>>

TimeElapsed_swapped(now, start) == start - now
TimeElapsed(now, start) == now - start

BenchResult(method_name, time, ncx, cx_depth) ==
    [method_name |-> method_name, time |-> time, ncx |-> ncx, cx_depth |-> cx_depth]

Methods == <<"lazy_aas", "lazy_aas_pyzx", "lazy_synth_pauli">>

\* ======================================================================
\* run_trafos (benchmarks.py lines 69-96)
\* ======================================================================
Raise ==
    /\ pc' = "raised"
    /\ UNCHANGED <<heap, cpu>>

\* One library pass applied to the object ref: it raises, or it takes d
\* units of CPU time and leaves the circuit rewritten.
ApplyPass(ref, name, next) ==
    \/ Raise
    \/ \E o \in CxOutcomes, d \in 0..MaxTick :
         /\ heap' = [heap EXCEPT ![ref] = Applied(@, name, o[1], o[2])]
         /\ cpu' = cpu + d
         /\ pc' = next

Record(ref, method_name, next) ==
    /\ LET time_elapsed == TimeElapsed(cpu, start_time)
           counts       == get_counts(heap[ref])
       IN results' = Append(results,
                        BenchResult(method_name, time_elapsed, counts[1], counts[2]))
    /\ pc' = next

\* lines 70-73
rt_copy ==
    /\ pc = "run_trafos"
    /\ LET c2 == circ_copy(heap, circ)
           c3 == circ_copy(c2.heap, circ)
       IN /\ circ2' = c2.ref
          /\ circ3' = c3.ref
          /\ heap' = c3.heap
    /\ input0' = Some(heap[circ])
    /\ results' = <<>>
    /\ pc' = "A_start"
    /\ UNCHANGED <<args, out, arch, circ, start_time, cpu, loaded, batchVars>>

\* lines 74-75
rt_A_place ==
    /\ pc = "A_start"
    /\ start_time' = cpu
    /\ heap' = [heap EXCEPT ![circ] = place_manually(arch, @)]
    /\ pc' = "A_apply"
    /\ UNCHANGED <<args, out, arch, circ, circ2, circ3, input0, cpu, results,
                   loaded, batchVars>>

\* line 76
rt_A_apply ==
    /\ pc = "A_apply"
    /\ ApplyPass(circ, "LazyAASPauliGraph", "A_record")
    /\ UNCHANGED <<args, out, arch, circ, circ2, circ3, input0, start_time,
                   results, loaded, batchVars>>

\* lines 77-79
rt_A_record ==
    /\ pc = "A_record"
    /\ Record(circ, Methods[1], "B_start")
    /\ UNCHANGED <<args, out, arch, heap, circ, circ2, circ3, input0, start_time,
                   cpu, loaded, batchVars>>

\* lines 81-82
rt_B_place ==
    /\ pc = "B_start"
    /\ start_time' = cpu
    /\ heap' = [heap EXCEPT ![circ2] = place_manually(arch, @)]
    /\ pc' = "B_apply"
    /\ UNCHANGED <<args, out, arch, circ, circ2, circ3, input0, cpu, results,
                   loaded, batchVars>>

\* line 83 (and route_phase_poly, lines 99-103, called back by the pass)
rt_B_apply ==
    /\ pc = "B_apply"
    /\ ApplyPass(circ2, "LazyAASPauliGraph_route_phase_poly", "B_record")
    /\ UNCHANGED <<args, out, arch, circ, circ2, circ3, input0, start_time,
                   results, loaded, batchVars>>

\* lines 84-86
rt_B_record ==
    /\ pc = "B_record"
    /\ Record(circ2, Methods[2], "C_start")
    /\ UNCHANGED <<args, out, arch, heap, circ, circ2, circ3, input0, start_time,
                   cpu, loaded, batchVars>>

\* lines 88-89
rt_C_start ==
    /\ pc = "C_start"
    /\ start_time' = cpu
    /\ pc' = "C_synth"
    /\ UNCHANGED <<args, out, arch, heap, circ, circ2, circ3, input0, cpu,
                   results, loaded, batchVars>>

\* line 90
rt_C_synth ==
    /\ pc = "C_synth"
    /\ ApplyPass(circ3, "LazySynthesisePauliGraph", "C_map")
    /\ UNCHANGED <<args, out, arch, circ, circ2, circ3, input0, start_time,
                   results, loaded, batchVars>>

\* line 91
rt_C_map ==
    /\ pc = "C_map"
    /\ ApplyPass(circ3, "CXMappingPass", "C_record")
    /\ UNCHANGED <<args, out, arch, circ, circ2, circ3, input0, start_time,
                   results, loaded, batchVars>>

\* lines 92-96: the last result is appended and run_trafos returns.
rt_C_record ==
    /\ pc = "C_record"
    /\ Record(circ3, Methods[3], "print_results")
    /\ UNCHANGED <<args, out, arch, heap, circ, circ2, circ3, input0, start_time,
                   cpu, loaded, batchVars>>

\* ======================================================================
\* Entry points (benchmarks.py) and the command surface (cli.py)
\* ======================================================================

\* n_pauli_exp calls of add_random_poly_exp_box, each appending one box; the
\* content of the boxes is the subject of SpecGen and is left out here.
AddBoxes(c, n_pauli_exp) ==
    [c EXCEPT !.ops = @ \o [i \in 1..n_pauli_exp |-> "PauliExpBox"]]

\* -m/--string_minmax as the command receives it: too short a list, sizes
\* the asserts of add_random_poly_exp_box reject, and sizes they accept.
MinMaxLists == {<<1>>, <<0, 1>>, <<2, 1>>, <<1, 1>>, <<1, 2>>}

PathKinds == {"absent", "file", "dir"}
ArchTypes == {"grid", "line"}

\* pathlib.Path(p).exists() / .is_dir() on a path of the given kind.
PathExists_always(kind) == TRUE
PathExists(kind) == kind # "absent"
PathIsDir(kind) == kind = "dir"

Invocations ==
    [cmd : {"grid"}, n_qubits_row : 0..MaxSide, n_qubits_col : 0..MaxSide,
     n_strings : 0..MaxStrings, string_size_min_max : MinMaxLists]
    \cup [cmd : {"line"}, n_qubits : 0..MaxQubits, n_strings : 0..MaxStrings,
          string_size_min_max : MinMaxLists]
    \cup [cmd : {"qasm"}, file_name : {"circ.qasm"}, kind : PathKinds,
          arch_type : ArchTypes]
    \cup [cmd : {"qasm-full"}, dir_name : {"data"}, kind : PathKinds \ {"dir"},
          arch_type : ArchTypes, n_files : {0}]
    \cup [cmd : {"qasm-full"}, dir_name : {"data"}, kind : {"dir"},
          arch_type : ArchTypes, n_files : 0..MaxFiles]

Line(text) == [text |-> text]
ResultLine(text, file, r) ==
    [text |-> text, file |-> file, method_name |-> r.method_name, time |-> r.time,
     cx |-> r.ncx, cx_depth |-> r.cx_depth]
FileLine(text, file) == [text |-> text, file |-> file]
PathLine(text, path) == [text |-> text, path |-> path]

\* cli.py lines 18-26
grid ==
    /\ pc = "main" /\ args.cmd = "grid"
    /\ IF Len(args.string_size_min_max) > 1
       THEN /\ out' = out \o <<Line("Running benchmark on square grid architecture"),
                               Line("  -> Will add randomly generated Pauli exponentials")>>
            /\ pc' = "square_grid"
       ELSE /\ pc' = "raised"
            /\ UNCHANGED out
    /\ UNCHANGED <<args, trafoVars, batchVars>>

\* cli.py lines 33-40
line ==
    /\ pc = "main" /\ args.cmd = "line"
    /\ IF Len(args.string_size_min_max) > 1
       THEN /\ out' = out \o <<Line("Running benchmark on line architecture"),
                               Line("  -> Will add randomly generated Pauli exponentials")>>
            /\ pc' = "line_arch"
       ELSE /\ pc' = "raised"
            /\ UNCHANGED out
    /\ UNCHANGED <<args, trafoVars, batchVars>>

\* The random circuit of square_grid and line_arch: the first call of
\* add_random_poly_exp_box asserts on the sizes.
BuildRandom(a, n, n_pauli_exp, min_size, max_size) ==
    /\ arch' = a
    /\ heap' = <<AddBoxes(Circuit(n),
                    IF AssertSizes(min_size, max_size) THEN n_pauli_exp ELSE 0)>>
    /\ circ' = 1
    /\ pc' = IF n_pauli_exp > 0 /\ ~AssertSizes(min_size, max_size)
             THEN "raised" ELSE "run_trafos"

\* benchmarks.py lines 30-33
square_grid ==
    /\ pc = "square_grid"
    /\ BuildRandom(SquareGrid(args.n_qubits_row, args.n_qubits_col),
                   args.n_qubits_row * args.n_qubits_col, args.n_strings,
                   args.string_size_min_max[1], args.string_size_min_max[2])
    /\ UNCHANGED <<args, out, circ2, circ3, input0, start_time, cpu, results,
                   loaded, batchVars>>

\* benchmarks.py lines 39-42
line_arch ==
    /\ pc = "line_arch"
    /\ BuildRandom(get_line_arch(args.n_qubits), args.n_qubits, args.n_strings,
                   args.string_size_min_max[1], args.string_size_min_max[2])
    /\ UNCHANGED <<args, out, circ2, circ3, input0, start_time, cpu, results,
                   loaded, batchVars>>

\* benchmarks.py lines 34-36 and 43-45
print_methods ==
    /\ pc = "print_results" /\ args.cmd \in {"grid", "line"}
    /\ out' = out \o [i \in 1..Len(results) |-> ResultLine("Method", 0, results[i])]
    /\ pc' = "returned"
    /\ UNCHANGED <<args, trafoVars, batchVars>>

\* cli.py lines 46-52
qasm ==
    /\ pc = "main" /\ args.cmd = "qasm"
    /\ IF ~PathExists(args.kind)
       THEN /\ out' = Append(out, PathLine("Error: could not find file", args.file_name))
            /\ pc' = "returned"
       ELSE /\ out' = Append(out, Line("Running benchmark"))
            /\ pc' = "qasm_bench"
    /\ UNCHANGED <<args, trafoVars, batchVars>>

\* The circuits qasm_filename_to_circuit can return, after the rebase.
LoadedCircuits ==
    {[AddBoxes(Circuit(n), k) EXCEPT !.log = <<"auto_rebase">>] :
        n \in 0..MaxQubits, k \in 0..MaxStrings}

\* benchmarks.py lines 118-121: the loader (or the rebase) raises, as it
\* must when the path is a directory, or the circuit and its topology exist.
qasm_bench ==
    /\ pc = "qasm_bench"
    /\ \/ /\ pc' = "raised"
          /\ UNCHANGED <<arch, heap, circ, loaded>>
       \/ /\ args.kind = "file"
          /\ \E c \in LoadedCircuits :
                /\ heap' = <<c>>
                /\ arch' = IF args.arch_type = "line"
                           THEN get_line_arch(n_qubits(c))
                           ELSE get_square_grid(n_qubits(c))
          /\ circ' = 1
          /\ loaded' = TRUE
          /\ pc' = "run_trafos"
    /\ UNCHANGED <<args, out, circ2, circ3, input0, start_time, cpu, results,
                   batchVars>>

\* benchmarks.py lines 123-124
qasm_bench_print ==
    /\ pc = "print_results" /\ args.cmd = "qasm"
    /\ out' = out \o [i \in 1..Len(results) |-> ResultLine("file", 0, results[i])]
    /\ pc' = "returned"
    /\ UNCHANGED <<args, trafoVars, batchVars>>

\* cli.py lines 58-64; full_qasm_bench then lists the directory.
qasm_full ==
    /\ pc = "main" /\ args.cmd = "qasm-full"
    /\ IF ~PathIsDir(args.kind)
       THEN /\ out' = Append(out, PathLine("Error: could not find directory", args.dir_name))
            /\ pc' = "returned"
            /\ UNCHANGED <<listing, wstate, wcode, sigterm>>
       ELSE /\ out' = Append(out, Line("Running benchmark"))
            /\ pc' = "full_qasm_bench"
            /\ listing' = [i \in 1..args.n_files |-> i]
            /\ wstate' = [i \in 1..args.n_files |-> "unstarted"]
            /\ wcode' = [i \in 1..args.n_files |-> None]
            /\ sigterm' = [i \in 1..args.n_files |-> FALSE]
    /\ UNCHANGED <<args, trafoVars, idx, p1, returncode, elapsed, started, expired>>

\* ======================================================================
\* full_qasm_bench (benchmarks.py lines 127-134) and its worker processes
\* ======================================================================
\* A worker is "unstarted", "running", "exited" (dead, exit status not yet
\* collected by the parent) or "reaped".

\* p1.join(timeout=60) gives up once the timeout has elapsed.
JoinExpired_never(e) == FALSE
JoinExpired(e) == e = Timeout

\* lines 128-130: the next entry of the listing, Process(...), p1.start()
fqb_start ==
    /\ pc = "full_qasm_bench"
    /\ idx < Len(listing)
    /\ idx' = idx + 1
    /\ p1' = listing[idx + 1]
    /\ wstate' = [wstate EXCEPT ![listing[idx + 1]] = "running"]
    /\ started' = Append(started, listing[idx + 1])
    /\ returncode' = None
    /\ elapsed' = 0
    /\ pc' = "join"
    /\ UNCHANGED <<args, out, trafoVars, listing, wcode, sigterm, expired>>

\* line 128: the listing is exhausted and full_qasm_bench returns.
fqb_return ==
    /\ pc = "full_qasm_bench"
    /\ idx = Len(listing)
    /\ pc' = "returned"
    /\ UNCHANGED <<args, out, trafoVars, batchVars>>

\* line 131: one unit of the wait goes by with the worker still running.
fqb_join_wait ==
    /\ pc = "join"
    /\ wstate[p1] = "running"
    /\ elapsed < Timeout
    /\ elapsed' = elapsed + 1
    /\ UNCHANGED <<pc, args, out, trafoVars, listing, idx, p1, returncode, wstate,
                   wcode, sigterm, started, expired>>

\* line 131: the worker has exited; join collects its exit status.
fqb_join_finished ==
    /\ pc = "join"
    /\ wstate[p1] = "exited"
    /\ returncode' = wcode[p1]
    /\ wstate' = [wstate EXCEPT ![p1] = "reaped"]
    /\ pc' = "terminate"
    /\ UNCHANGED <<args, out, trafoVars, listing, idx, p1, elapsed, wcode, sigterm,
                   started, expired>>

\* line 131: the wait expires with the worker still running.
fqb_join_timeout ==
    /\ pc = "join"
    /\ wstate[p1] = "running"
    /\ JoinExpired(elapsed)
    /\ expired' = expired \cup {p1}
    /\ pc' = "terminate"
    /\ UNCHANGED <<args, out, trafoVars, listing, idx, p1, returncode, elapsed,
                   wstate, wcode, sigterm, started>>

\* line 132: p1.terminate() sends SIGTERM unless the exit status is already
\* known; it does not wait for the worker to die.
fqb_terminate ==
    /\ pc = "terminate"
    /\ sigterm' = IF returncode = None /\ wstate[p1] = "running"
                  THEN [sigterm EXCEPT ![p1] = TRUE] ELSE sigterm
    /\ pc' = "exitcode"
    /\ UNCHANGED <<args, out, trafoVars, listing, idx, p1, returncode, elapsed,
                   wstate, wcode, started, expired>>

\* lines 133-134: p1.exitcode polls the worker without blocking; the notice
\* is printed when no exit status is available.
fqb_exitcode ==
    /\ pc = "exitcode"
    /\ LET polled == IF returncode # None THEN returncode
                     ELSE IF wstate[p1] = "exited" THEN wcode[p1] ELSE None
       IN /\ returncode' = polled
          /\ out' = IF polled = None
                    THEN Append(out, FileLine("timed out", p1)) ELSE out
    /\ wstate' = IF returncode = None /\ wstate[p1] = "exited"
                 THEN [wstate EXCEPT ![p1] = "reaped"] ELSE wstate
    /\ pc' = "full_qasm_bench"
    /\ UNCHANGED <<args, trafoVars, listing, idx, p1, elapsed, wcode, sigterm,
                   started, expired>>

\* The worker's qasm_bench returns (exit status 0) or raises (exit status 1).
worker_exit ==
    \E f \in DOMAIN wstate, code \in {0, 1} :
        /\ wstate[f] = "running"
        /\ wstate' = [wstate EXCEPT ![f] = "exited"]
        /\ wcode' = [wcode EXCEPT ![f] = Some(code)]
        /\ UNCHANGED <<pc, args, out, trafoVars, listing, idx, p1, returncode,
                       elapsed, sigterm, started, expired>>

\* A pending SIGTERM is delivered and kills the worker.
worker_killed ==
    \E f \in DOMAIN wstate :
        /\ wstate[f] = "running"
        /\ sigterm[f]
        /\ wstate' = [wstate EXCEPT ![f] = "exited"]
        /\ wcode' = [wcode EXCEPT ![f] = Some(0 - SIGTERM)]
        /\ UNCHANGED <<pc, args, out, trafoVars, listing, idx, p1, returncode,
                       elapsed, sigterm, started, expired>>

BatchParent ==
    \/ fqb_start \/ fqb_return \/ fqb_join_wait \/ fqb_join_finished
    \/ fqb_join_timeout \/ fqb_terminate \/ fqb_exitcode

\* ======================================================================
\* Specifications
\* ======================================================================
GenIdle == gpc = "idle" /\ gargs = None /\ gcirc = None /\ gret = None

Init ==
    /\ GenIdle
    /\ pc = "main"
    /\ args \in Invocations
    /\ out = <<>>
    /\ arch = None /\ heap = <<>> /\ circ = 0 /\ circ2 = 0 /\ circ3 = 0
    /\ input0 = None /\ start_time = 0 /\ cpu = 0 /\ results = <<>>
    /\ loaded = FALSE
    /\ listing = <<>> /\ idx = 0 /\ p1 = 0 /\ returncode = None /\ elapsed = 0
    /\ wstate = <<>> /\ wcode = <<>> /\ sigterm = <<>> /\ started = <<>>
    /\ expired = {}

Next ==
    \/ grid /\ UNCHANGED genVars
    \/ line /\ UNCHANGED genVars
    \/ qasm /\ UNCHANGED genVars
    \/ qasm_full /\ UNCHANGED genVars
    \/ square_grid /\ UNCHANGED genVars
    \/ line_arch /\ UNCHANGED genVars
    \/ qasm_bench /\ UNCHANGED genVars
    \/ rt_copy /\ UNCHANGED genVars
    \/ rt_A_place /\ UNCHANGED genVars
    \/ rt_A_apply /\ UNCHANGED genVars
    \/ rt_A_record /\ UNCHANGED genVars
    \/ rt_B_place /\ UNCHANGED genVars
    \/ rt_B_apply /\ UNCHANGED genVars
    \/ rt_B_record /\ UNCHANGED genVars
    \/ rt_C_start /\ UNCHANGED genVars
    \/ rt_C_synth /\ UNCHANGED genVars
    \/ rt_C_map /\ UNCHANGED genVars
    \/ rt_C_record /\ UNCHANGED genVars
    \/ print_methods /\ UNCHANGED genVars
    \/ qasm_bench_print /\ UNCHANGED genVars
    \/ fqb_start /\ UNCHANGED genVars
    \/ fqb_return /\ UNCHANGED genVars
    \/ fqb_join_wait /\ UNCHANGED genVars
    \/ fqb_join_finished /\ UNCHANGED genVars
    \/ fqb_join_timeout /\ UNCHANGED genVars
    \/ fqb_terminate /\ UNCHANGED genVars
    \/ fqb_exitcode /\ UNCHANGED genVars
    \/ worker_exit /\ UNCHANGED genVars
    \/ worker_killed /\ UNCHANGED genVars

Spec == Init /\ [][Next]_vars

\* The qasm-full command alone, with the parent process of full_qasm_bench
\* kept running: every step of it that stays possible is eventually taken.
\* Nothing is assumed of the workers.
BatchInit == Init /\ args.cmd = "qasm-full"

BatchNext ==
    \/ qasm_full /\ UNCHANGED genVars
    \/ fqb_start /\ UNCHANGED genVars
    \/ fqb_return /\ UNCHANGED genVars
    \/ fqb_join_wait /\ UNCHANGED genVars
    \/ fqb_join_finished /\ UNCHANGED genVars
    \/ fqb_join_timeout /\ UNCHANGED genVars
    \/ fqb_terminate /\ UNCHANGED genVars
    \/ fqb_exitcode /\ UNCHANGED genVars
    \/ worker_exit /\ UNCHANGED genVars
    \/ worker_killed /\ UNCHANGED genVars

FairSpec ==
    BatchInit /\ [][BatchNext]_vars /\ WF_vars(BatchParent /\ UNCHANGED genVars)

\* ======================================================================
\* Claims about the program
\* ======================================================================
Printed(l) == \E i \in 1..Len(out) : out[i] = l
Running == {f \in DOMAIN wstate : wstate[f] = "running"}

\* The parent is done with file f: it is at the loop head or has returned,
\* or its current worker is for a later entry.
MovedOn(f) == f # p1 \/ pc \in {"full_qasm_bench", "returned"}

\* C1: every file whose worker had not finished when the 60-unit wait
\* expired has had its worker terminated and has its "<file> timed out"
\* notice printed by the time the parent moves on to the next file.
C1_TimeoutNoticed ==
    \A f \in expired :
        MovedOn(f) =>
            /\ sigterm[f] \/ wstate[f] # "running"
            /\ Printed(FileLine("timed out", f))

\* C2: in batch mode no two worker processes are alive at the same time.
C2_OneWorkerAlive == Cardinality(Running) <= 1

BatchInOrder ==
    /\ Len(started) <= Len(listing)
    /\ \A i \in 1..Len(started) : started[i] = listing[i]
    /\ Len(started) = idx
    /\ args.cmd = "qasm-full" => pc # "raised"
BatchReturned == pc = "returned" /\ started = listing

\* C3: full_qasm_bench starts one worker per directory entry, in listing
\* order and never twice, does not raise, and, whatever the workers do,
\* returns to its caller with every entry started.
C3_BatchCompletes ==
    /\ []BatchInOrder
    /\ (pc = "full_qasm_bench" /\ idx = 0) ~> BatchReturned

C3_Witness ==
    /\ pc = "returned"
    /\ started = <<1, 2>>
    /\ 1 \in expired
    /\ wstate[1] = "running"
    /\ wcode[2] = Some(1)

LineArchBuilt ==
    /\ pc = "run_trafos"
    /\ args.cmd = "line" \/ (args.cmd = "qasm" /\ args.arch_type = "line")
IsLine(a, n) ==
    /\ Len(a.nodes) = n
    /\ {a.nodes[i] : i \in 1..Len(a.nodes)} = {Node(i) : i \in 0..(n - 1)}
    /\ a.edges = {{Node(i), Node(i + 1)} : i \in 0..(n - 2)}
    /\ Cardinality(a.edges) = n - 1
    /\ \A i \in 1..Len(a.nodes) : Degree(a, a.nodes[i]) <= 2
    /\ n >= 2 => Cardinality({i \in 1..Len(a.nodes) : Degree(a, a.nodes[i]) = 1}) = 2

\* C6: for n >= 1 get_line_arch(n) has the n nodes 0..n-1 and the n-1 edges
\* {i, i+1}, no node of degree above 2 and, for n >= 2, two nodes of degree 1.
C6_LineArchIsPath ==
    (LineArchBuilt /\ n_qubits(heap[circ]) >= 1) => IsLine(arch, n_qubits(heap[circ]))

APhase == {"A_start", "A_apply", "A_record"}
BPhase == {"B_start", "B_apply", "B_record"}
CPhase == {"C_start", "C_synth", "C_map", "C_record"}
Last(s) == s[Len(s)]

\* C7: run_trafos returns three results named lazy_aas, lazy_aas_pyzx,
\* lazy_synth_pauli in this order; a pipeline's result is appended after the
\* pipeline has finished and before the next one starts; time, ncx and
\* cx_depth of every result are non-negative, the last two integers.
C7_ThreeResultsInOrder ==
    /\ Len(results) <= 3
    /\ \A i \in 1..Len(results) :
        /\ results[i].method_name = Methods[i]
        /\ results[i].time >= 0
        /\ results[i].ncx \in Nat
        /\ results[i].cx_depth \in Nat
    /\ pc \in APhase =>
        /\ Len(results) = 0
        /\ heap[circ2] = input0[1] /\ heap[circ3] = input0[1]
    /\ pc \in BPhase =>
        /\ Len(results) = 1
        /\ Last(heap[circ].log) = "LazyAASPauliGraph"
        /\ heap[circ3] = input0[1]
    /\ pc \in CPhase =>
        /\ Len(results) = 2
        /\ Last(heap[circ2].log) = "LazyAASPauliGraph_route_phase_poly"
    /\ pc = "print_results" =>
        /\ Len(results) = 3
        /\ Last(heap[circ3].log) = "CXMappingPass"

C7_Witness ==
    /\ pc = "print_results"
    /\ Len(results) = 3
    /\ results[2].time > 0
    /\ results[3].ncx > 0
    /\ results[1].ncx = 0

InRunTrafos == pc \in APhase \cup BPhase \cup CPhase \cup {"print_results"}

\* C8: both copies are taken before any pipeline modifies anything, so
\* each pipeline starts from a circuit equal to the caller's input; pipeline
\* A changes the caller's object only, B the second copy only, C the third
\* only, and on return the caller's circuit carries the changes of A alone.
C8_CopiesAndFrame ==
    InRunTrafos =>
        LET in == input0[1] IN
        /\ pc = "A_start" => heap[circ] = in
        /\ pc \in APhase \cup {"B_start"} => heap[circ2] = in
        /\ pc \in APhase \cup BPhase \cup {"C_start"} => heap[circ3] = in
        /\ pc \in BPhase \cup CPhase \cup {"print_results"} =>
            heap[circ].log = in.log \o <<"rename_units", "LazyAASPauliGraph">>
        /\ pc \in CPhase \cup {"print_results"} =>
            heap[circ2].log =
                in.log \o <<"rename_units", "LazyAASPauliGraph_route_phase_poly">>
        /\ pc = "print_results" =>
            heap[circ3].log = in.log \o <<"LazySynthesisePauliGraph", "CXMappingPass">>

C8_Witness ==
    /\ pc = "print_results"
    /\ args.cmd = "qasm"
    /\ n_qubits(heap[circ]) = 2
    /\ heap[circ].units # input0[1].units
    /\ heap[circ3].units = input0[1].units
    /\ Len(heap[circ].ops) # Len(heap[circ2].ops)

MissingPath ==
    \/ args.cmd = "qasm" /\ args.kind = "absent"
    \/ args.cmd = "qasm-full" /\ args.kind # "dir"

NodeSet(a) == {a.nodes[i] : i \in 1..Len(a.nodes)}

\* C10: in every entry point that calls run_trafos the topology has at
\* least as many nodes as the circuit has qubits, and place_manually renames
\* every qubit to a node of the topology, distinct qubits to distinct nodes.
C10_AllQubitsPlaced ==
    /\ pc = "run_trafos" => Len(arch.nodes) >= n_qubits(heap[circ])
    /\ pc = "A_apply" =>
        /\ \A i \in 1..n_qubits(heap[circ]) : heap[circ].units[i] \in NodeSet(arch)
        /\ IsInjective(heap[circ].units)

====
